---- MODULE Spec2Model ----
(***************************************************************************)
(* Cycle-level model of avacore.rtl.core.Core (src/core/avacore/rtl/core.py)*)
(* One step of the model is one clock edge of the "sync" domain: every     *)
(* primed variable is the value a register or memory takes after the edge, *)
(* computed from the values before it.                                     *)
(***************************************************************************)
EXTENDS Integers, Sequences, FiniteSets

(* ---------------- bounds of the model ---------------- *)
MaxCycles == 44    \* clock edges explored from reset
MaxLat    == 1     \* cycles the stack may take to report a new top as valid

(* ---------------- program constants ---------------- *)
STACK_N    == 4
SLOT_N     == 4
ITEM_SHAPE == 32

PUSH_IMM_INTEGER          == 1      \* 0x01
PUSH_VARIABLE             == 10     \* 0x0a
OP_LET                    == 32     \* 0x20, LET
BUILTIN_PRINT             == 128    \* 0x80
BUILTIN_PRINT_LINEFEED    == 130    \* 0x82
OPERATOR_ADD_INTEGER      == 160    \* 0xa0
OPERATOR_MULTIPLY_INTEGER == 165    \* 0xa5

\* class Op
ADD      == 0
MULTIPLY == 1
FDIVIDE  == 2
IDIVIDE  == 3
SUBTRACT == 4
NEGATE   == 5

\* class Type
INTEGER == 0

Opcodes == {PUSH_IMM_INTEGER, PUSH_VARIABLE, OP_LET, BUILTIN_PRINT,
            BUILTIN_PRINT_LINEFEED, OPERATOR_ADD_INTEGER,
            OPERATOR_MULTIPLY_INTEGER}

(* ---------------- program images ---------------- *)
HELLO_AVC == << 1, 2, 0,   32, 0,   1, 4, 0,   32, 1,   10, 0,   10, 1,
                165,   128,   130 >>

\* 01 02 00 01 04 00 a5 80 : push 2, push 4, multiply, print
Mul248 == << 1, 2, 0,   1, 4, 0,   165,   128 >>
\* 01 04 00 20 00 0a 00 80 : push 4, LET 0, PUSH_VARIABLE 0, print
SlotRT == << 1, 4, 0,   32, 0,   10, 0,   128 >>
\* ff : a byte outside the dispatch table
Unknown == << 255 >>
\* 82 : linefeed alone
Linefeed == << 130 >>
\* 80 : print on an empty stack
PrintEmpty == << 128 >>
\* 01 03 00 a0 : add with a single operand on the stack
AddOne == << 1, 3, 0,   160 >>
\* five pushes without a pop
Push5 == << 1, 1, 0,   1, 2, 0,   1, 3, 0,   1, 4, 0,   1, 5, 0 >>
\* push 1, push 2, print, print, then a byte outside the table
PrintTwice == << 1, 1, 0,   1, 2, 0,   128,   128,   255 >>
\* push 2, push 3, add, LET 2, PUSH_VARIABLE 2, print, linefeed, unknown
AddLet == << 1, 2, 0,   1, 3, 0,   160,   32, 2,   10, 2,   128,   130,   255 >>

\* push 7, LET with operand byte 4 (= SLOT_N), PUSH_VARIABLE 1, print, unknown
LetFour == << 1, 7, 0,   32, 4,   10, 1,   128,   255 >>
\* push 0xffff, push 3, multiply, push 2, add, unknown
NegArith == << 1, 255, 255,   1, 3, 0,   165,   1, 2, 0,   160,   255 >>

Programs == {HELLO_AVC, Mul248, SlotRT, Unknown, Linefeed, PrintEmpty,
             AddOne, Push5, PrintTwice, AddLet, LetFour, NegArith}

\* bytes an imem read outside the image may return (0 is what the simulator
\* returns; a synthesised memory may return anything, here one opcode)
OobBytes == {0, BUILTIN_PRINT_LINEFEED}

(* ---------------- arithmetic helpers ---------------- *)
RECURSIVE Pow2(_)
Pow2(n) == IF n = 0 THEN 1 ELSE 2 * Pow2(n - 1)

\* bits_for(n): width of Signal(range(n + 1))
RECURSIVE BitsFor(_)
BitsFor(n) == IF n < 2 THEN 1 ELSE 1 + BitsFor(n \div 2)

\* ceil_log2(n): address width of a Memory of depth n
RECURSIVE CeilLog2(_)
CeilLog2(n) == IF n <= 1 THEN 0 ELSE 1 + CeilLog2((n + 1) \div 2)

Max(a, b) == IF a >= b THEN a ELSE b

\* A 32-bit item is held as its two 16-bit halves (the model checker's
\* integers are 32-bit signed, an item is 32-bit unsigned).
\* Item(x): the integer x, of either sign, assigned to a Signal(ITEM_SHAPE):
\* its two's-complement encoding truncated to ITEM_SHAPE bits
Item(x) ==
    [ hi |-> (x \div 65536) % Pow2(ITEM_SHAPE - 16), lo |-> x % 65536 ]

\* x[:16].as_signed()
S16(x) == IF x.lo >= 32768 THEN x.lo - 65536 ELSE x.lo

\* x[:8]
Low8(x) == x.lo % 256

\* Python floor division as Amaranth's // computes it (0 for a zero divisor)
FloorDiv(a, b) ==
    IF b = 0 THEN 0
    ELSE IF b > 0 THEN a \div b
    ELSE (0 - a) \div (0 - b)

VARIABLES
    prog,       \* the program image held by imem
    fsm,        \* FSM state
    pc, idata,  \* pc register, imem_rd.data
    stack, lat, \* Stack contents (bottom first), cycles until top is valid
    w_valid, w_p, r_ready,          \* stack.w_stream.valid/.p, r_stream.ready
    slots, rd_addr, rd_data,        \* slots memory and its read port
    wr_en, wr_addr, wr_data,        \* slots write port
    u_valid, u_p,                   \* uart.wr.valid / uart.wr.p
    dslot, op, opa, opb, typ,
    printed,    \* bytes collected by the test bench's uart process
    cyc,        \* clock edges since reset
    hist        \* observation record (history, not part of the design)

vars == << prog, fsm, pc, idata, stack, lat, w_valid, w_p, r_ready, slots,
           rd_addr, rd_data, wr_en, wr_addr, wr_data, u_valid, u_p, dslot,
           op, opa, opb, typ, printed, cyc, hist >>

(* ---------------- imem ---------------- *)
ProgLen == Len(prog)
PcWrap(x) == x % Pow2(BitsFor(ProgLen))

\* imem_rd.addr.eq(pc): pc truncated to the address width of the memory
ImemAddr(p) == p % Pow2(CeilLog2(ProgLen))

\* the values imem_rd.data can take after an edge at which pc = p
ImemOut(p) ==
    IF ImemAddr(p) < ProgLen THEN { prog[ImemAddr(p) + 1] } ELSE OobBytes

(* ---------------- Stack (interface only) ---------------- *)
RValid == Len(stack) > 0 /\ lat = 0
RP     == IF Len(stack) > 0 THEN stack[Len(stack)] ELSE Item(0)
WReady == Len(stack) < STACK_N
PopNow  == r_ready /\ RValid
PushNow == w_valid /\ WReady

\* the Stack may take up to MaxLat cycles to report a changed top as valid
LatNext ==
    IF PopNow \/ PushNow THEN 0 .. MaxLat ELSE { Max(lat - 1, 0) }

StackNext ==
    LET popped == IF PopNow THEN SubSeq(stack, 1, Len(stack) - 1) ELSE stack
    IN  IF PushNow THEN Append(popped, w_p) ELSE popped

(* ---------------- decode table ---------------- *)
\* variant: the Default case returns to 'decode' instead of halting
DecodeNextNoHalt(b) ==
    CASE b = PUSH_IMM_INTEGER          -> "push.imm.integer"
      [] b = PUSH_VARIABLE             -> "push.variable"
      [] b = OP_LET                    -> "let"
      [] b = BUILTIN_PRINT             -> "print"
      [] b = BUILTIN_PRINT_LINEFEED    -> "decode"
      [] b = OPERATOR_ADD_INTEGER      -> "alu"
      [] b = OPERATOR_MULTIPLY_INTEGER -> "alu"
      [] OTHER                         -> "decode"

\* m.next of each case of the Switch in 'decode'
DecodeNext(b) ==
    CASE b = PUSH_IMM_INTEGER          -> "push.imm.integer"
      [] b = PUSH_VARIABLE             -> "push.variable"
      [] b = OP_LET                    -> "let"
      [] b = BUILTIN_PRINT             -> "print"
      [] b = BUILTIN_PRINT_LINEFEED    -> "decode"
      [] b = OPERATOR_ADD_INTEGER      -> "alu"
      [] b = OPERATOR_MULTIPLY_INTEGER -> "alu"
      [] OTHER                         -> "done"

\* op after a 'decode' cycle: op.eq(Op.ADD) / op.eq(Op.MULTIPLY)
\* variant: 0xa5 selects SUBTRACT
DecodeOpSub(b) ==
    CASE b = OPERATOR_ADD_INTEGER      -> ADD
      [] b = OPERATOR_MULTIPLY_INTEGER -> SUBTRACT
      [] OTHER                         -> op

DecodeOp(b) ==
    CASE b = OPERATOR_ADD_INTEGER      -> ADD
      [] b = OPERATOR_MULTIPLY_INTEGER -> MULTIPLY
      [] OTHER                         -> op

\* pc after a 'decode' cycle: pc + 1, overridden by pc.eq(pc) in three cases
DecodePc(b) ==
    IF b \in {BUILTIN_PRINT, OPERATOR_ADD_INTEGER, OPERATOR_MULTIPLY_INTEGER}
    THEN pc ELSE PcWrap(pc + 1)

\* variant: the slot is taken from imem_rd.data in every 'let' cycle,
\* without the captured dslot
LetSlotNoCapture == idata % SLOT_N

\* slot = Mux(dslot == SLOT_N, imem_rd.data, dslot), as written to
\* slots_wr.addr (2 bits)
LetSlot == (IF dslot = SLOT_N THEN idata ELSE dslot) % SLOT_N

\* dslot after a 'let' cycle
LetDslot == IF dslot = SLOT_N THEN idata % 8 ELSE dslot

\* uart.wr.payload.eq(ord(b'0') + stack.r_stream.p)
PrintByte(v) == (48 + Low8(v)) % 256

\* variant: the result keeps only 16 bits, without sign extension
AluResult16(o, a, b, old) ==
    CASE o = ADD      -> Item((S16(a) + S16(b)) % 65536)
      [] o = MULTIPLY -> Item((S16(a) * S16(b)) % 65536)
      [] o = IDIVIDE  -> Item(FloorDiv(S16(a), S16(b)) % 65536)
      [] o = SUBTRACT -> Item((S16(a) - S16(b)) % 65536)
      [] OTHER        -> old

\* the value the Switch(op) of 'alu4' assigns to stack.w_stream.p
AluResult(o, a, b, old) ==
    CASE o = ADD      -> Item(S16(a) + S16(b))
      [] o = MULTIPLY -> Item(S16(a) * S16(b))
      [] o = IDIVIDE  -> Item(FloorDiv(S16(a), S16(b)))
      [] o = SUBTRACT -> Item(S16(a) - S16(b))
      [] OTHER        -> old

(* ---------------- observation record ---------------- *)
\* Encoded length of the instruction an opcode byte starts (0: not in table)
InstrLen(b) ==
    CASE b = PUSH_IMM_INTEGER -> 3
      [] b \in {PUSH_VARIABLE, OP_LET} -> 2
      [] b \in {BUILTIN_PRINT, BUILTIN_PRINT_LINEFEED, OPERATOR_ADD_INTEGER,
                OPERATOR_MULTIPLY_INTEGER} -> 1
      [] OTHER -> 0

NoItem == [ hi |-> -1, lo |-> -1 ]
NoSlots == [k \in 0 .. (SLOT_N - 1) |-> NoItem]

HistInit ==
    [ prevfsm |-> "reset", prevop |-> 0,
      fpos    |-> -1,      \* pc value idata was fetched at (-1: reset value)
      decpc   |-> 0, ilen |-> 0,   \* pc at the last Decode entry, length
                                   \* of the instruction it dispatched
      pushes  |-> 0, pops |-> 0,   \* push requests issued, pops performed
      pstage  |-> 0, pdepth |-> 0, ptop |-> NoItem,
      letk    |-> 0, stored |-> NoSlots,
      pvk     |-> 0, pvdone |-> FALSE,
      aluopc  |-> 0,       \* opcode of the arithmetic instruction in flight
      alupops |-> 0,       \* pops performed since the last Decode cycle
      popb    |-> NoItem, popa |-> NoItem ]  \* first and second item popped
                                             \* since the last Decode cycle

\* the record after this edge; nidata is the byte imem delivers at the edge
HistNext(nidata) ==
    [ prevfsm |-> fsm,
      prevop  |-> idata,
      fpos    |-> pc,
      decpc   |-> IF fsm = "decode" THEN pc ELSE hist.decpc,
      ilen    |-> IF fsm = "decode" THEN InstrLen(idata) ELSE hist.ilen,
      pushes  |-> hist.pushes + (IF w_valid THEN 1 ELSE 0),
      pops    |-> hist.pops + (IF PopNow THEN 1 ELSE 0),
      pstage  |-> IF fsm = "print" /\ RValid THEN 1
                  ELSE IF hist.pstage = 1 THEN 2 ELSE 0,
      pdepth  |-> IF fsm = "print" /\ RValid THEN Len(stack) ELSE hist.pdepth,
      ptop    |-> IF fsm = "print" /\ RValid THEN RP ELSE hist.ptop,
      \* operand byte of the LET being decoded: the byte that follows it
      letk    |-> IF fsm = "decode" /\ idata = OP_LET THEN nidata ELSE hist.letk,
      \* item each slot received from the last LET that named it
      stored  |-> IF fsm = "let" /\ RValid
                  THEN [hist.stored EXCEPT
                          ![IF hist.letk \in 0 .. (SLOT_N - 1)
                            THEN hist.letk ELSE LetSlot] = RP]
                  ELSE hist.stored,
      pvk     |-> IF fsm = "push.variable" THEN idata ELSE hist.pvk,
      pvdone  |-> fsm = "push.variable.3",
      aluopc  |-> IF fsm = "decode" THEN idata ELSE hist.aluopc,
      alupops |-> IF fsm = "decode" THEN 0
                  ELSE hist.alupops + (IF PopNow THEN 1 ELSE 0),
      popb    |-> IF fsm = "decode" THEN NoItem
                  ELSE IF PopNow /\ hist.alupops = 0 THEN RP ELSE hist.popb,
      popa    |-> IF fsm = "decode" THEN NoItem
                  ELSE IF PopNow /\ hist.alupops = 1 THEN RP ELSE hist.popa ]

(* ---------------- what every clock edge does ---------------- *)
\* memories, the Stack, the test bench's uart process
Edge ==
    /\ cyc < MaxCycles
    /\ cyc' = cyc + 1
    /\ prog' = prog
    /\ idata' \in ImemOut(pc)
    /\ stack' = StackNext
    /\ lat' \in LatNext
    /\ rd_data' = slots[rd_addr]
    /\ slots' = IF wr_en THEN [slots EXCEPT ![wr_addr] = wr_data] ELSE slots
    /\ printed' = IF u_valid THEN Append(printed, u_p) ELSE printed
    /\ hist' = HistNext(idata')

\* the m.d.sync defaults: requests are deasserted unless a state asserts them
\* variant: without the defaults, the stack requests keep their value
NoStackReqHeld == UNCHANGED << w_valid, r_ready >>
NoStackReq == w_valid' = FALSE /\ r_ready' = FALSE
\* variant: without the default, slots_wr.en keeps its value
NoSlotWrHeld == UNCHANGED << wr_en, wr_addr, wr_data >>
NoSlotWr   == wr_en' = FALSE /\ UNCHANGED << wr_addr, wr_data >>
NoUart     == u_valid' = FALSE /\ u_p' = u_p
AluRegs    == << op, opa, opb, typ >>

\* m.d.comb += done.eq(1) in state 'done'
done == fsm = "done"

(* ---------------- reset ---------------- *)
Init ==
    /\ prog \in Programs
    /\ fsm = "init"
    /\ pc = 0 /\ idata = 0
    /\ stack = << >> /\ lat = 0
    /\ w_valid = FALSE /\ w_p = Item(0) /\ r_ready = FALSE
    /\ slots = [k \in 0 .. (SLOT_N - 1) |-> Item(0)]
    /\ rd_addr = 0 /\ rd_data = Item(0)
    /\ wr_en = FALSE /\ wr_addr = 0 /\ wr_data = Item(0)
    /\ u_valid = FALSE /\ u_p = 0
    /\ dslot = 0 /\ op = ADD /\ opa = Item(0) /\ opb = Item(0) /\ typ = INTEGER
    /\ printed = << >>
    /\ cyc = 0
    /\ hist = HistInit

(* ---------------- FSM states ---------------- *)
\* variant: 'init' compares the advanced pc with the program length
InitStateNewPc ==
    /\ fsm = "init"
    /\ pc' = PcWrap(pc + 1)
    /\ fsm' = IF PcWrap(pc + 1) = ProgLen THEN "done" ELSE "decode"
    /\ NoStackReq /\ NoSlotWr /\ NoUart
    /\ UNCHANGED << w_p, rd_addr, dslot, AluRegs >>
    /\ Edge

InitState ==
    /\ fsm = "init"
    /\ pc' = PcWrap(pc + 1)
    /\ fsm' = IF pc = ProgLen THEN "done" ELSE "decode"
    /\ NoStackReq /\ NoSlotWr /\ NoUart
    /\ UNCHANGED << w_p, rd_addr, dslot, AluRegs >>
    /\ Edge

\* variant: pc keeps counting in 'done'
DoneCounting ==
    /\ fsm = "done"
    /\ fsm' = "done"
    /\ pc' = PcWrap(pc + 1)
    /\ NoStackReq /\ NoSlotWr /\ NoUart
    /\ UNCHANGED << w_p, rd_addr, dslot, AluRegs >>
    /\ Edge

Done ==
    /\ fsm = "done"
    /\ fsm' = "done"
    /\ NoStackReq /\ NoSlotWr /\ NoUart
    /\ UNCHANGED << pc, w_p, rd_addr, dslot, AluRegs >>
    /\ Edge

Decode ==
    /\ fsm = "decode"
    /\ fsm' = DecodeNext(idata)
    /\ pc' = DecodePc(idata)
    /\ dslot' = IF idata = OP_LET THEN SLOT_N ELSE dslot
    /\ u_valid' = (idata = BUILTIN_PRINT_LINEFEED)
    /\ u_p' = IF idata = BUILTIN_PRINT_LINEFEED THEN 10 ELSE u_p
    /\ op' = DecodeOp(idata)
    /\ typ' = IF idata \in {OPERATOR_ADD_INTEGER, OPERATOR_MULTIPLY_INTEGER}
              THEN INTEGER ELSE typ
    /\ NoStackReq /\ NoSlotWr
    /\ UNCHANGED << w_p, rd_addr, opa, opb >>
    /\ Edge

PushImmInteger ==
    /\ fsm = "push.imm.integer"
    /\ fsm' = "push.imm.integer.2"
    /\ pc' = PcWrap(pc + 1)
    /\ w_p' = Item(idata)
    /\ NoStackReq /\ NoSlotWr /\ NoUart
    /\ UNCHANGED << rd_addr, dslot, AluRegs >>
    /\ Edge

PushImmInteger2 ==
    /\ fsm = "push.imm.integer.2"
    /\ fsm' = "decode"
    /\ pc' = PcWrap(pc + 1)
    /\ w_p' = Item(idata * 256 + Low8(w_p))
    /\ w_valid' = TRUE /\ r_ready' = FALSE
    /\ NoSlotWr /\ NoUart
    /\ UNCHANGED << rd_addr, dslot, AluRegs >>
    /\ Edge

PushVariable ==
    /\ fsm = "push.variable"
    /\ fsm' = "push.variable.2"
    /\ rd_addr' = idata % SLOT_N
    /\ NoStackReq /\ NoSlotWr /\ NoUart
    /\ UNCHANGED << pc, w_p, dslot, AluRegs >>
    /\ Edge

PushVariable2 ==
    /\ fsm = "push.variable.2"
    /\ fsm' = "push.variable.3"
    /\ NoStackReq /\ NoSlotWr /\ NoUart
    /\ UNCHANGED << pc, w_p, rd_addr, dslot, AluRegs >>
    /\ Edge

PushVariable3 ==
    /\ fsm = "push.variable.3"
    /\ fsm' = "decode"
    /\ pc' = PcWrap(pc + 1)
    /\ w_p' = rd_data
    /\ w_valid' = TRUE /\ r_ready' = FALSE
    /\ NoSlotWr /\ NoUart
    /\ UNCHANGED << rd_addr, dslot, AluRegs >>
    /\ Edge

Let ==
    /\ fsm = "let"
    /\ dslot' = LetDslot
    /\ IF RValid
       THEN /\ fsm' = "decode"
            /\ pc' = PcWrap(pc + 1)
            /\ wr_addr' = LetSlot
            /\ wr_data' = RP
            /\ wr_en' = TRUE
            /\ r_ready' = TRUE
       ELSE /\ fsm' = "let"
            /\ pc' = pc
            /\ NoSlotWr
            /\ r_ready' = FALSE
    /\ w_valid' = FALSE
    /\ NoUart
    /\ UNCHANGED << w_p, rd_addr, AluRegs >>
    /\ Edge

\* variant: 'print' writes without waiting for stack.r_stream.valid
PrintStateNoWait ==
    /\ fsm = "print"
    /\ fsm' = "decode"
    /\ pc' = PcWrap(pc + 1)
    /\ u_p' = PrintByte(RP)
    /\ u_valid' = TRUE
    /\ NoStackReq /\ NoSlotWr
    /\ UNCHANGED << w_p, rd_addr, dslot, AluRegs >>
    /\ Edge

PrintState ==
    /\ fsm = "print"
    /\ IF RValid
       THEN /\ fsm' = "decode"
            /\ pc' = PcWrap(pc + 1)
            /\ u_p' = PrintByte(RP)
            /\ u_valid' = TRUE
       ELSE /\ fsm' = "print"
            /\ pc' = pc
            /\ NoUart
    /\ NoStackReq /\ NoSlotWr
    /\ UNCHANGED << w_p, rd_addr, dslot, AluRegs >>
    /\ Edge

Alu ==
    /\ fsm = "alu"
    /\ IF RValid
       THEN /\ fsm' = "alu2"
            /\ opb' = RP
            /\ r_ready' = TRUE
       ELSE /\ fsm' = "alu"
            /\ opb' = opb
            /\ r_ready' = FALSE
    /\ w_valid' = FALSE
    /\ NoSlotWr /\ NoUart
    /\ UNCHANGED << pc, w_p, rd_addr, dslot, op, opa, typ >>
    /\ Edge

Alu2 ==
    /\ fsm = "alu2"
    /\ fsm' = "alu3"
    /\ NoStackReq /\ NoSlotWr /\ NoUart
    /\ UNCHANGED << pc, w_p, rd_addr, dslot, AluRegs >>
    /\ Edge

\* variant: 'alu3' pops without waiting for stack.r_stream.valid
Alu3NoWait ==
    /\ fsm = "alu3"
    /\ fsm' = "alu4"
    /\ opa' = RP
    /\ r_ready' = TRUE
    /\ w_valid' = FALSE
    /\ NoSlotWr /\ NoUart
    /\ UNCHANGED << pc, w_p, rd_addr, dslot, op, opb, typ >>
    /\ Edge

Alu3 ==
    /\ fsm = "alu3"
    /\ IF RValid
       THEN /\ fsm' = "alu4"
            /\ opa' = RP
            /\ r_ready' = TRUE
       ELSE /\ fsm' = "alu3"
            /\ opa' = opa
            /\ r_ready' = FALSE
    /\ w_valid' = FALSE
    /\ NoSlotWr /\ NoUart
    /\ UNCHANGED << pc, w_p, rd_addr, dslot, op, opb, typ >>
    /\ Edge

Alu4 ==
    /\ fsm = "alu4"
    /\ fsm' = IF op = FDIVIDE THEN "done" ELSE "decode"
    /\ pc' = PcWrap(pc + 1)
    /\ w_valid' = TRUE /\ r_ready' = FALSE
    /\ w_p' = AluResult(op, opa, opb, w_p)
    /\ NoSlotWr /\ NoUart
    /\ UNCHANGED << rd_addr, dslot, AluRegs >>
    /\ Edge

Next ==
    \/ InitState
    \/ Done
    \/ Decode
    \/ PushImmInteger
    \/ PushImmInteger2
    \/ PushVariable
    \/ PushVariable2
    \/ PushVariable3
    \/ Let
    \/ PrintState
    \/ Alu
    \/ Alu2
    \/ Alu3
    \/ Alu4

Spec == Init /\ [][Next]_vars

(* ---------------- sanity ---------------- *)
TypeOK ==
    /\ prog \in Programs
    /\ pc \in 0 .. (Pow2(BitsFor(ProgLen)) - 1)
    /\ idata \in 0 .. 255
    /\ Len(stack) <= STACK_N
    /\ dslot \in 0 .. 7
    /\ cyc \in 0 .. MaxCycles

(* ---------------- programs the properties speak of ---------------- *)
\* every instruction of p from position i on starts with a table opcode and
\* has all its operand bytes inside p
RECURSIVE TableOnly(_, _)
TableOnly(p, i) ==
    \/ i > Len(p)
    \/ /\ p[i] \in Opcodes
       /\ i + InstrLen(p[i]) - 1 <= Len(p)
       /\ TableOnly(p, i + InstrLen(p[i]))

\* stack effect of an instruction as the dispatch table documents it
Needs(b) == CASE b \in {OP_LET, BUILTIN_PRINT} -> 1
              [] b \in {OPERATOR_ADD_INTEGER, OPERATOR_MULTIPLY_INTEGER} -> 2
              [] OTHER -> 0
Effect(b) == CASE b \in {PUSH_IMM_INTEGER, PUSH_VARIABLE} -> 1
               [] b = BUILTIN_PRINT_LINEFEED -> 0
               [] OTHER -> -1

\* every pop of p from position i on, entered with depth d, finds an operand
RECURSIVE PopsFed(_, _, _)
PopsFed(p, i, d) ==
    \/ i > Len(p)
    \/ /\ d >= Needs(p[i])
       /\ PopsFed(p, i + InstrLen(p[i]), d + Effect(p[i]))

WellFormed(p) == TableOnly(p, 1) /\ PopsFed(p, 1, 0)

(* ---------------- properties ---------------- *)

C2_Mul248WritesOnce ==
    prog = Mul248 => printed \in { << >>, << 56 >> }

\* C3: between two successive entries into Decode, pc increases by exactly
\* the encoded length of the instruction executed in between.
C3_PcAdvancesByLength ==
    (fsm = "decode" /\ hist.ilen > 0) => pc = hist.decpc + hist.ilen

\* C4: in every reachable state pc lies in 0..len(Program).
C4_PcInRange ==
    pc \in 0 .. ProgLen

\* C5: for a program made only of table opcodes in which every pop finds an
\* operand, Decode never dispatches on a byte fetched from a position
\* outside 0..len(Program)-1.
C5_DecodeInsideImage ==
    (WellFormed(prog) /\ fsm = "decode") => hist.fpos \in 0 .. (ProgLen - 1)

\* C6: the engine asserts the stack read-ready flag only in a cycle in which
\* the stack is not empty and still reports, as its valid top, the element
\* that Let, Alu sub-state 1 or Alu sub-state 3 saw valid the cycle before.
C6_NoPopOnEmpty ==
    r_ready =>
        /\ Len(stack) > 0
        /\ RValid
        /\ CASE fsm = "alu2"   -> RP = opb
             [] fsm = "alu4"   -> RP = opa
             [] fsm = "decode" -> wr_en /\ RP = wr_data
             [] OTHER          -> FALSE

\* a pop request for the last element of the stack, issued by Alu sub-state 3
C6_Witness ==
    r_ready /\ fsm = "alu4" /\ Len(stack) = 1 /\ RP = opa

\* C7: for a program composed only of table opcodes, when the engine has
\* halted the number of pushes it issued equals the number of pops performed
\* plus the final stack depth.
C7_StackBalance ==
    (TableOnly(prog, 1) /\ fsm = "done" /\ ~w_valid /\ ~r_ready)
        => hist.pushes = hist.pops + Len(stack)

\* C8: BUILTIN_PRINT pops the operand it prints: once the cycle after the
\* completing Print cycle has passed, the stack depth is one less than it
\* was when Print completed.
C8_PrintPops ==
    hist.pstage = 2 => Len(stack) = hist.pdepth - 1

\* C9: a PUSH_VARIABLE of slot k in 0..3 pushes the item that the last LET
\* naming slot k popped, whatever the number of stall cycles in Let; and the
\* program 01 04 00 20 00 0a 00 80 writes '4' as its first output byte.
C9_SlotWriteThenRead ==
    /\ (/\ hist.pvdone
        /\ hist.pvk \in 0 .. (SLOT_N - 1)
        /\ hist.stored[hist.pvk] # NoItem)
           => (w_valid /\ w_p = hist.stored[hist.pvk])
    /\ (prog = SlotRT /\ printed # << >>) => printed[1] = 52

\* PUSH_VARIABLE 0 right after LET 0 has offered the item 4 to the stack
C9_Witness ==
    /\ prog = SlotRT
    /\ hist.pvdone /\ hist.pvk = 0
    /\ hist.stored[0] = Item(4)
    /\ w_valid /\ w_p = Item(4)

\* C10: the cycle after Decode dispatched on a byte outside the table the
\* engine is in Done and no stack, slot-store or output request is asserted;
\* the program ff is in Done from the third cycle on and never writes.
C10_UnknownOpcodeHalts ==
    /\ (hist.prevfsm = "decode" /\ hist.prevop \notin Opcodes)
           => (fsm = "done" /\ ~w_valid /\ ~r_ready /\ ~wr_en /\ ~u_valid)
    /\ prog = Unknown
           => (printed = << >> /\ ~u_valid /\ (cyc >= 3 => fsm = "done"))

\* the program ff in its first Done cycle, right after the Decode of ff
C10_Witness ==
    /\ prog = Unknown
    /\ hist.prevfsm = "decode" /\ hist.prevop = 255
    /\ fsm = "done"

\* C11: the program 82 writes exactly one byte over the whole run, the byte
\* 0x0a, and never asserts a push or a pop request: at every moment the bytes
\* written are nothing yet or the single byte 0x0a, and the stack is untouched.
C11_LinefeedOnce ==
    prog = Linefeed =>
        /\ printed \in { << >>, << 10 >> }
        /\ ~w_valid /\ ~r_ready /\ stack = << >>

\* C12: Done is absorbing, done is asserted exactly in the Done cycles, and
\* from the second Done cycle on pc, the stack, the slots and the bytes
\* written no longer change and no output write is requested.
C12_DoneAbsorbing ==
    [][ /\ (done <=> fsm = "done")
        /\ fsm = "done" =>
              /\ fsm' = "done"
              /\ hist.prevfsm = "done" =>
                    /\ pc' = pc /\ stack' = stack /\ slots' = slots
                    /\ printed' = printed /\ ~u_valid /\ ~u_valid' ]_vars

\* a third (or later) Done cycle, reached after a program wrote output
C12_Witness ==
    /\ fsm = "done" /\ hist.prevfsm = "done" /\ done
    /\ printed # << >> /\ Len(stack) > 0

\* C14: LET captures its destination once, on the first cycle in Let: the
\* slot written is the one the operand byte names (its low address bits),
\* whatever the number of stall cycles, and once captured dslot holds the
\* operand byte and is not the sentinel SLOT_N.
C14_LetCapturesOnce ==
    /\ (wr_en /\ hist.prevfsm = "let") => wr_addr = hist.letk % SLOT_N
    /\ (fsm = "let" /\ hist.prevfsm = "let")
           => (dslot = hist.letk % 8 /\ dslot # SLOT_N)

\* C15: the slot write enable is asserted exactly in the cycle that follows
\* a Let cycle in which the stack top was valid, and an edge changes no slot
\* other than the addressed one, and that one only under the enable.
C15_SlotsWrittenOnlyByLet ==
    [][ /\ wr_en' <=> (fsm = "let" /\ RValid)
        /\ \A k \in 0 .. (SLOT_N - 1) :
              slots'[k] # slots[k] =>
                 (wr_en /\ k = wr_addr /\ hist.prevfsm = "let") ]_vars

\* a LET that changed a slot: the cycle after its write was committed
C15_Witness ==
    /\ hist.prevfsm = "decode" /\ ~wr_en
    /\ \E k \in 0 .. (SLOT_N - 1) : slots[k] # Item(0)

\* the 32-bit two's-complement encoding of an integer, as its 16-bit halves
TwosComplement32(x) ==
    IF x >= 0
    THEN [ hi |-> x \div 65536, lo |-> x % 65536 ]
    ELSE [ hi |-> 65535 - ((0 - x - 1) \div 65536),
           lo |-> 65535 - ((0 - x - 1) % 65536) ]

\* the low 16 bits of an item read as a signed 16-bit integer
Signed16(x) == x.lo - (IF x.lo >= 32768 THEN 65536 ELSE 0)

\* C16: with b the first-popped and a the second-popped item, the item an
\* arithmetic instruction offers to the stack after Alu sub-state 4 is the
\* 32-bit two's-complement encoding of s16(a) + s16(b), resp. s16(a) * s16(b);
\* two items were popped and the one push is accepted.
C16_AluResult ==
    hist.prevfsm = "alu4" =>
        /\ hist.alupops = 2
        /\ w_valid /\ WReady
        /\ hist.aluopc = OPERATOR_ADD_INTEGER =>
              w_p = TwosComplement32(Signed16(hist.popa) + Signed16(hist.popb))
        /\ hist.aluopc = OPERATOR_MULTIPLY_INTEGER =>
              w_p = TwosComplement32(Signed16(hist.popa) * Signed16(hist.popb))

\* 0xffff * 3 has produced 0xfffffffd
C16_Witness ==
    /\ hist.prevfsm = "alu4"
    /\ hist.aluopc = OPERATOR_MULTIPLY_INTEGER
    /\ hist.popb = Item(3) /\ hist.popa = Item(65535)
    /\ w_p = [ hi |-> 65535, lo |-> 65533 ]

\* a cycle in which the engine waits for the stack
Stalled == fsm \in {"let", "print", "alu", "alu3"} /\ ~RValid

\* C17: a stall cycle leaves the state, pc and the slots unchanged and
\* requests no pop, push, slot write or output write; the program 80, whose
\* stack never becomes valid, stays in Print and never reaches Done.
C17_StallChangesNothing ==
    /\ [][ Stalled =>
              /\ fsm' = fsm /\ pc' = pc /\ slots' = slots
              /\ ~r_ready' /\ ~w_valid' /\ ~wr_en' /\ ~u_valid' ]_vars
    /\ [](prog = PrintEmpty => (~done /\ (cyc >= 2 => fsm = "print")))

\* the program 80 still waiting in Print after many cycles
C17_Witness ==
    prog = PrintEmpty /\ fsm = "print" /\ Stalled /\ cyc >= 10

\* C18 as stated: after the Init cycle pc has advanced by 1 and the engine is
\* in Done exactly if that advanced pc equals the program length.
C18_InitHaltsOnNewPc ==
    hist.prevfsm = "init" =>
        /\ pc = PcWrap(1)
        /\ fsm = (IF pc = ProgLen THEN "done" ELSE "decode")

\* C18: after the Init cycle pc has advanced by 1 and the engine is in Done
\* only if pc before the advance (0 at reset) equals the program length, in
\* Decode otherwise; a program of length 1 goes from Init to Decode.
C18_InitHaltsOnOldPc ==
    hist.prevfsm = "init" =>
        /\ pc = PcWrap(1)
        /\ fsm = (IF 0 = ProgLen THEN "done" ELSE "decode")
        /\ ProgLen = 1 => fsm = "decode"

\* a program of length 1 right after Init, with pc equal to its length
C18_Witness ==
    /\ hist.prevfsm = "init" /\ ProgLen = 1
    /\ pc = ProgLen /\ fsm = "decode"

\* C19: a push and a pop request are never asserted together; every request
\* flag is high exactly in the cycle after the state cycle that issued it
\* (one push, pop, slot write or output write per issuing cycle), the stack
\* and slot requests are never high in two consecutive cycles, and every
\* cycle with the output valid adds exactly one byte to the output.
C19_OneRequestPerCycle ==
    /\ [](~(w_valid /\ r_ready))
    /\ [][ /\ w_valid' <=>
                fsm \in {"push.imm.integer.2", "push.variable.3", "alu4"}
           /\ r_ready' <=> (fsm \in {"let", "alu", "alu3"} /\ RValid)
           /\ wr_en' <=> (fsm = "let" /\ RValid)
           /\ u_valid' <=> \/ fsm = "print" /\ RValid
                           \/ fsm = "decode" /\ idata = BUILTIN_PRINT_LINEFEED
           /\ w_valid => ~w_valid'
           /\ r_ready => ~r_ready'
           /\ wr_en => ~wr_en'
           /\ Len(printed') = Len(printed) + (IF u_valid THEN 1 ELSE 0) ]_vars

\* a LET issues its pop and its slot write in the same cycle, after a push
\* and an arithmetic instruction have issued theirs
C19_Witness ==
    /\ r_ready /\ wr_en /\ ~w_valid /\ ~u_valid
    /\ hist.prevfsm = "let" /\ hist.pushes >= 3 /\ hist.pops >= 2

\* C20: typ is INTEGER and op is ADD or MULTIPLY in every reachable state.
C20_OnlyAddMultiplyInteger ==
    typ = INTEGER /\ op \in {ADD, MULTIPLY}

\* a multiplication in Alu sub-state 4
C20_Witness ==
    fsm = "alu4" /\ op = MULTIPLY /\ typ = INTEGER

====
